---- MODULE Spec2Model ----
(***************************************************************************)
(* Model of the SSD1306 OLED framebuffer driver, fb_ssd1306.c.             *)
(*                                                                         *)
(* The driver is a table of five callbacks (init_display, set_addr_win,    *)
(* blank, set_gamma, write_vmem) that talk to the controller through       *)
(* write_reg() (one command-phase transaction per call) and through        *)
(* par->fbtftops.write() (one data burst).  The model records every bus    *)
(* transaction of the most recent callback in `bus`.                       *)
(***************************************************************************)
EXTENDS Integers, Sequences, FiniteSets, TLC

VARIABLES
    xres,          \* par->info->var.xres
    yres,          \* par->info->var.yres
    rotate,        \* par->pdata->rotate
    vmem16,        \* par->info->screen_buffer: index -> 16 bit sample,
                   \* indices outside the domain hold 0
    curves,        \* par->gamma.curves[0]
    txbuf,         \* par->txbuf.buf, 1-based sequence of bytes
    dc,            \* level of the D/C gpio line after the last transaction
    bus,           \* transactions issued by the most recent callback
    last,          \* the most recent callback: name, arguments, return value
    DisplayState,  \* lifecycle state of the panel
    before,        \* DisplayState when the most recent callback was entered
    pc,            \* race model: position of each init_display caller
    lock,          \* race model: holder of par->gamma.lock, 0 when free
    defaultStores, \* race model: number of stores of the default contrast
    ctrl,          \* panel model: registers of an SSD1306 attached to the bus
    window         \* panel model: bytes of the last window programming seen

vars == <<xres, yres, rotate, vmem16, curves, txbuf, dc, bus, last,
          DisplayState, before, pc, lock, defaultStores, ctrl, window>>

-----------------------------------------------------------------------------
(* Bounds and input sets *)

\* largest width of the small panels whose buffers are enumerated
MaxW == 2

\* largest number of lit pixels in an enumerated buffer
MaxLit == 2

\* number of concurrent callers of init_display in the race model
NumCallers == 2

\* -EIO, the error a failing bus write returns
EIO == 0 - 5

-----------------------------------------------------------------------------
(* Bus transport *)

\* write_reg(par, val): one command-phase transaction carrying val, D/C low;
\* the driver never looks at the result r of the underlying write
WriteReg(val, r) == [dc |-> 0, bytes |-> <<val>>, ret |-> r]

\* a run of values handed to one write_reg() call: one transaction for all
Emit_coalesced(vals, failAt) ==
    << [dc |-> 0, bytes |-> vals, ret |-> IF failAt = 0 THEN 0 ELSE EIO] >>

\* the transactions of a run of write_reg() calls; the failAt-th write
\* (0: none) fails on the bus
Emit(vals, failAt) ==
    [k \in 1..Len(vals) |-> WriteReg(vals[k], IF k = failAt THEN EIO ELSE 0)]

\* par->fbtftops.write(par, buf, len) while D/C is at `level`: one burst
WriteData(level, buf, len, r) ==
    [dc |-> level, bytes |-> SubSeq(buf, 1, len), ret |-> r]

-----------------------------------------------------------------------------
(* init_display *)

\* lines 38-41: the default contrast
DefaultContrast(h) == IF h = 64 THEN \hCF ELSE \h8F

\* the lazy default without the test for an unset contrast
LazyContrast_unguarded(c, h) == DefaultContrast(h)

\* lines 36-43 run by a single caller
LazyContrast(c, h) == IF c = 0 THEN DefaultContrast(h) ELSE c

\* lines 69-72
SegmentRemap(rot) == IF rot >= 180 THEN \hA1 ELSE \hA0

\* the COM scan direction mirrored only beyond 180 degrees
ComScanDir_above_180(rot) == IF rot > 180 THEN \hC8 ELSE \hC0

\* lines 75-78
ComScanDir(rot) == IF rot >= 180 THEN \hC8 ELSE \hC0

\* the COM pins choice without the branch for 48 rows
ComPins_no48(h) == IF h = 64 THEN \h12 ELSE \h02

\* lines 82-90
ComPins(h) == IF h = 64 THEN \h12 ELSE IF h = 48 THEN \h12 ELSE \h02

\* the sequence returning before Set Display ON
InitSequence_no_display_on(h, rot) ==
    << \hAE,
       \hD5, \h80,
       \hA8, h - 1,
       \hD3, \h00,
       \h40,
       \h8D, \h14,
       SegmentRemap(rot),
       ComScanDir(rot),
       \hDA, ComPins(h),
       \h20, \h01,
       \hD9, \hF1,
       \hDB, \h40,
       \hA4,
       \hA6 >>

\* the sequence programming horizontal instead of vertical addressing
InitSequence_horizontal(h, rot) ==
    << \hAE,
       \hD5, \h80,
       \hA8, h - 1,
       \hD3, \h00,
       \h40,
       \h8D, \h14,
       SegmentRemap(rot),
       ComScanDir(rot),
       \hDA, ComPins(h),
       \h20, \h00,
       \hD9, \hF1,
       \hDB, \h40,
       \hA4,
       \hA6,
       \hAF >>

\* lines 46-117: the values handed to write_reg(), in program order
InitSequence(h, rot) ==
    << \hAE,
       \hD5, \h80,
       \hA8, h - 1,
       \hD3, \h00,
       \h40,
       \h8D, \h14,
       SegmentRemap(rot),
       ComScanDir(rot),
       \hDA, ComPins(h),
       \h20, \h01,
       \hD9, \hF1,
       \hDB, \h40,
       \hA4,
       \hA6,
       \hAF >>

-----------------------------------------------------------------------------
(* set_addr_win *)

\* the 64x48 window, left open over all eight pages of the controller
set_addr_win_64x48_all_pages == << \h21, \h20, \h5F, \h22, \h0, \h7 >>

\* lines 122-134: the values handed to write_reg()
set_addr_win_64x48 == << \h21, \h20, \h5F, \h22, \h0, \h5 >>

\* a window programming that is left out when the window was programmed by
\* the callback just before
set_addr_win_top_left_once(w, h) ==
    IF last.op = "set_addr_win"
    THEN << >>
    ELSE << \h21, \h00, w - 1, \h22, \h0, (h \div 8) - 1 >>

\* lines 136-148: the values handed to write_reg()
set_addr_win_top_left(w, h) == << \h21, \h00, w - 1, \h22, \h0, (h \div 8) - 1 >>

\* the dispatch without the 64x48 variant
AddrWinSequence_top_left_only(w, h) == set_addr_win_top_left(w, h)

\* lines 156-159: the variant set_addr_win() dispatches to
AddrWinSequence(w, h) ==
    IF w = 64 /\ h = 48 THEN set_addr_win_64x48 ELSE set_addr_win_top_left(w, h)

-----------------------------------------------------------------------------
(* blank and set_gamma *)

\* the two blank commands swapped
BlankCommand_swapped(on) == IF on THEN \hAF ELSE \hAE

\* lines 167-170
BlankCommand(on) == IF on THEN \hAE ELSE \hAF

\* the level stored and sent without the mask
MaskGamma_unmasked(level) == level

\* line 178: curves[0] &= 0xFF
MaskGamma(level) == level % 256

\* the contrast level sent before its command
GammaSequence_swapped(c) == << c, \h81 >>

\* lines 181-182: the values handed to write_reg()
GammaSequence(c) == << \h81, c >>

-----------------------------------------------------------------------------
(* write_vmem *)

\* vmem16[idx]
Sample(vm, idx) == IF idx \in DOMAIN vm THEN vm[idx] ELSE 0

\* *buf |= bit << i, for bit in {0, 1}
OrBit(b, bit, i) ==
    IF bit = 0 \/ (b \div (2 ^ i)) % 2 = 1 THEN b ELSE b + 2 ^ i

\* the loop over i filling the byte from its most significant bit
RECURSIVE PackByte_msb_first(_, _, _, _, _, _)
PackByte_msb_first(vm, w, x, y, i, b) ==
    IF i >= 8 THEN b
    ELSE PackByte_msb_first(vm, w, x, y, i + 1,
             OrBit(b, IF Sample(vm, (y * 8 + i) * w + x) # 0 THEN 1 ELSE 0, 7 - i))

\* lines 201-203: one output byte, the loop over i
RECURSIVE PackByte(_, _, _, _, _, _)
PackByte(vm, w, x, y, i, b) ==
    IF i >= 8 THEN b
    ELSE PackByte(vm, w, x, y, i + 1,
                  OrBit(b, IF Sample(vm, (y * 8 + i) * w + x) # 0 THEN 1 ELSE 0, i))

\* the loop nest with the loop over the pages outside the loop over x
PackFrame_page_major(vm, w, h) ==
    [p1 \in 1..(w * (h \div 8)) |->
        PackByte(vm, w, (p1 - 1) % w, (p1 - 1) \div w, 0, 0)]

\* lines 197-206: the loops over x and, inside, over y.  buf advances by one
\* byte per round of the inner loop, so round number p (from 0) of the nest
\* stores at buf[p], and it is the round with x = p / (yres / 8) and
\* y = p % (yres / 8)
PackFrame(vm, w, h) ==
    [p1 \in 1..(w * (h \div 8)) |->
        PackByte(vm, w, (p1 - 1) \div (h \div 8), (p1 - 1) % (h \div 8), 0, 0)]

\* a write_vmem that leaves a buffer it has filled before as it is
StoreFrame_keep(buf, packed) ==
    IF \E k \in 1..Len(buf) : buf[k] # 0 THEN buf ELSE packed

\* the bytes of txbuf after the packing loops stored their output at its start
StoreFrame(buf, packed) ==
    packed \o SubSeq(buf, Len(packed) + 1, Len(buf))

\* the burst length of a buffer of two bytes per pixel
BurstLen_16bpp(w, h) == (w * h) \div 16

\* line 210: the burst length xres * yres / 8 (the product stays far below
\* 2^32 for every modelled panel)
BurstLen(w, h) == (w * h) \div 8

-----------------------------------------------------------------------------
(* Panel lifecycle *)

\* init_display drives the panel to On when it reports success
StateAfterInit(ret) == IF ret = 0 THEN "On" ELSE "Initializing"

\* blank toggles between On and Blanked
StateAfterBlank(on) == IF on THEN "Blanked" ELSE "On"

-----------------------------------------------------------------------------
(* Inputs *)

\* panels: the three SSD1306 sizes the driver names, a small one, and two the
\* controller cannot host (height not a multiple of 8, more than 128 columns)
Geometries ==
    { <<128, 64>>, <<128, 32>>, <<64, 48>>, <<2, 8>>, <<4, 12>>, <<136, 8>> }

\* a panel the controller can host: height a multiple of 8, at most 128 x 64
Supported(w, h) == w \in 1..128 /\ h \in 1..64 /\ h % 8 = 0

Rotations == { 0, 90, 180, 270 }

\* frames offered to the driver: dark, only pixel (0,0) lit, a diagonal of
\* samples with all 16 bits set
Dark == [idx \in {} |-> 0]

OnlyOrigin == [idx \in {0} |-> 1]

Diagonal(w, h) ==
    [idx \in { k * w + k : k \in 0..((IF w < h THEN w ELSE h) - 1) } |-> \hFFFF]

Frames(w, h) == { Dark, OnlyOrigin, Diagonal(w, h) }

\* contrast levels handed to set_gamma (u32)
Levels == { 0, \h7F, \h100, \h1CF, \h7FFFFFFF }

\* results of par->fbtftops.write(): success, -EIO, -ETIMEDOUT
WriteResults == { 0, EIO, 0 - 110 }

\* the write_reg() of a run of n that fails on the bus: none, the first, the
\* second or the last
FailPoints(n) == { k \in {0, 1, 2, n} : k <= n }

\* (xs, ys, xe, ye) as handed to set_addr_win
WindowArgs(w, h) == { <<0, 0, w - 1, h - 1>>, <<1, 2, 3, 4>> }

\* (offset, len) as handed to write_vmem
VmemArgs(w, h) == { <<0, w * h * 2>>, <<2 * w, 2 * w>> }

Zeros(n) == [k \in 1..n |-> 0]

\* a transmit buffer still holding an all-lit frame
Stale(n) == [k \in 1..n |-> \hFF]

\* panels of the packer runs: the SSD1306 sizes and every small panel of
\* one or two pages
PackGeometries ==
    { <<128, 64>>, <<128, 32>>, <<64, 48>> }
        \cup { <<w, h>> : w \in 1..MaxW, h \in {8, 16} }

\* sample values of a lit pixel: bit 0 only, bit 15 only
PixelValues == { 1, \h8000 }

\* pixels that may be lit: all of them on a small panel; on an SSD1306 size
\* the first and the last pixel, the last row of page 0 and the first row of
\* page 1
LitCandidates(w, h) ==
    IF w <= MaxW
    THEN 0..(w * h - 1)
    ELSE { 0, 7 * w, 8 * w + 1, w * h - 1 }

\* the subsets of S with at most k elements
RECURSIVE SubsetsUpTo(_, _)
SubsetsUpTo(S, k) ==
    IF k = 0 THEN { {} }
    ELSE LET R == SubsetsUpTo(S, k - 1)
         IN  R \cup { T \cup {a} : T \in R, a \in S }

\* buffers with at most MaxLit lit pixels, all lit samples of one value; on
\* an SSD1306 size that value is 1
PackBuffers(w, h) ==
    { [idx \in S |-> v] :
        S \in SubsetsUpTo(LitCandidates(w, h), MaxLit),
        v \in IF w <= MaxW THEN PixelValues ELSE {1} }

\* The frames of the SSD1306 sizes are packed once and looked up afterwards;
\* Packed(vm, w, h) is PackFrame(vm, w, h) for every input.
FrameInputs ==
    UNION { { <<g[1], g[2], f>> : f \in Frames(g[1], g[2]) } :
            g \in { q \in Geometries : q[1] > MaxW } }
        \cup UNION { { <<g[1], g[2], f>> : f \in PackBuffers(g[1], g[2]) } :
                     g \in { q \in PackGeometries : q[1] > MaxW } }

PackedFrames == [in \in FrameInputs |-> PackFrame(in[3], in[1], in[2])]

Packed(vm, w, h) ==
    IF <<w, h, vm>> \in FrameInputs
    THEN PackedFrames[<<w, h, vm>>]
    ELSE PackFrame(vm, w, h)

-----------------------------------------------------------------------------
(* The panel: an SSD1306 on the bus.  It keeps its addressing mode, its     *)
(* column and page window, whether its write pointer stands at the window   *)
(* origin, which of the addressing commands it has taken in since its reset *)
(* and whether its last burst began at the origin.  A run without a panel   *)
(* keeps ctrl at CtrlDetached.                                              *)

CtrlDetached ==
    [attached |-> FALSE, known |-> FALSE, mode |-> 0,
     cs |-> 0, ce |-> 0, ps |-> 0, pe |-> 0,
     colAtStart |-> FALSE, pageAtStart |-> FALSE,
     seen |-> {}, aligned |-> FALSE]

\* the controller after power-on or a reset pulse: page addressing mode, the
\* whole RAM of 128 columns by 8 pages as window, pointer at its origin
CtrlPowerOn ==
    [attached |-> TRUE, known |-> TRUE, mode |-> 2,
     cs |-> 0, ce |-> 127, ps |-> 0, pe |-> 7,
     colAtStart |-> TRUE, pageAtStart |-> TRUE,
     seen |-> {}, aligned |-> FALSE]

\* line 34: par->fbtftops.reset(par)
CtrlReset(c) == IF c.attached THEN CtrlPowerOn ELSE c

\* a controller that missed a byte: its registers are no longer known
CtrlLost(c) == [c EXCEPT !.known = FALSE]

\* number of argument bytes that follow a command byte
ArgCount(cmd) ==
    IF cmd \in {\h20, \h81, \h8D, \hA8, \hD3, \hD5, \hD9, \hDA, \hDB} THEN 1
    ELSE IF cmd \in {\h21, \h22, \hA3} THEN 2
    ELSE IF cmd \in {\h29, \h2A} THEN 5
    ELSE IF cmd \in {\h26, \h27} THEN 6
    ELSE 0

\* the effect of one command on the addressing registers: 0x20 sets the
\* addressing mode, 0x21 the column range, 0x22 the page range; both range
\* commands move the pointer to the start of the range.  The RAM has columns
\* 0..127 and pages 0..7: what a range outside of it does is not followed.
CtrlCommand(c, cmd, a1, a2) ==
    IF cmd = \h20
    THEN [c EXCEPT !.mode = a1 % 4, !.seen = @ \cup {cmd}]
    ELSE IF cmd = \h21
    THEN [c EXCEPT !.cs = a1, !.ce = a2, !.colAtStart = TRUE,
                   !.seen = @ \cup {cmd},
                   !.known = @ /\ a1 \in 0..127 /\ a2 \in a1..127]
    ELSE IF cmd = \h22
    THEN [c EXCEPT !.ps = a1, !.pe = a2, !.pageAtStart = TRUE,
                   !.seen = @ \cup {cmd},
                   !.known = @ /\ a1 \in 0..7 /\ a2 \in a1..7]
    ELSE c

\* the command bytes from position k on, taken in by the controller
RECURSIVE CtrlFeed(_, _, _)
CtrlFeed(c, bytes, k) ==
    IF k > Len(bytes) THEN c
    ELSE IF k + ArgCount(bytes[k]) > Len(bytes) THEN CtrlLost(c)
    ELSE CtrlFeed(CtrlCommand(c, bytes[k],
                              IF ArgCount(bytes[k]) >= 1 THEN bytes[k + 1] ELSE 0,
                              IF ArgCount(bytes[k]) >= 2 THEN bytes[k + 2] ELSE 0),
                  bytes, k + ArgCount(bytes[k]) + 1)

\* the payloads of a run of transactions
Payload(txs) == [k \in 1..Len(txs) |-> txs[k].bytes]

\* the controller after the command transactions of one callback; a failed
\* transaction leaves it in a state the model does not follow
CtrlReceive(c, txs) ==
    IF ~c.attached THEN c
    ELSE IF ~c.known \/ \E k \in 1..Len(txs) : txs[k].ret # 0 \/ txs[k].dc # 0
         THEN CtrlLost(c)
         ELSE CtrlFeed(c, [k \in 1..Len(txs) |-> txs[k].bytes[1]], 1)

\* where the controller stores byte number k (from 0) of a burst that starts
\* at the window origin: in vertical mode (1) down the pages of a column and
\* then on to the next column, in horizontal mode (0) along the columns of a
\* page and then on to the next page, in page mode along the columns of one
\* page; always wrapping inside the window
CtrlLand(c, k) ==
    LET cols  == c.ce - c.cs + 1
        pages == c.pe - c.ps + 1
    IN  IF c.mode = 1
        THEN [col |-> c.cs + ((k \div pages) % cols), page |-> c.ps + (k % pages)]
        ELSE IF c.mode = 0
        THEN [col |-> c.cs + (k % cols), page |-> c.ps + ((k \div cols) % pages)]
        ELSE [col |-> c.cs + (k % cols), page |-> c.ps]

\* the controller after one data burst; its pointer is followed only while
\* it is known to stand at the window origin
CtrlBurst(c, tx) ==
    IF ~c.attached THEN c
    ELSE IF ~c.known \/ tx.ret # 0 THEN CtrlLost(c)
    ELSE IF ~(c.colAtStart /\ c.pageAtStart)
         THEN [c EXCEPT !.aligned = FALSE]
         ELSE [c EXCEPT
                 !.colAtStart = (CtrlLand(c, Len(tx.bytes)).col = c.cs),
                 !.pageAtStart = (CtrlLand(c, Len(tx.bytes)).page = c.ps),
                 !.aligned = TRUE]

-----------------------------------------------------------------------------
(* The driver, one caller at a time *)

Init ==
    /\ \E g \in Geometries : xres = g[1] /\ yres = g[2]
    /\ rotate \in Rotations
    /\ vmem16 \in Frames(xres, yres)
    /\ curves = 0
    /\ txbuf \in { Zeros(BurstLen(xres, yres)), Stale(BurstLen(xres, yres)) }
    /\ dc = 0
    /\ bus = <<>>
    /\ last = [op |-> "none", args |-> <<>>, ret |-> 0]
    /\ DisplayState = "Uninitialized"
    /\ before = "Uninitialized"
    /\ pc = <<>>
    /\ lock = 0
    /\ defaultStores = 0
    /\ ctrl = CtrlDetached
    /\ window = <<>>

\* lines 32-120
init_display ==
    \E failAt \in FailPoints(Len(InitSequence(yres, rotate))) :
        /\ curves' = LazyContrast(curves, yres)
        /\ bus' = Emit(InitSequence(yres, rotate), failAt)
        /\ dc' = 0
        /\ last' = [op |-> "init_display", args |-> <<>>, ret |-> 0]
        /\ DisplayState' = StateAfterInit(0)
        /\ before' = DisplayState
        /\ ctrl' = CtrlReceive(CtrlReset(ctrl), bus')
        /\ UNCHANGED <<xres, yres, rotate, vmem16, txbuf, pc, lock, defaultStores, window>>

\* lines 150-160
set_addr_win ==
    \E a \in WindowArgs(xres, yres) :
    \E failAt \in FailPoints(Len(AddrWinSequence(xres, yres))) :
        /\ bus' = Emit(AddrWinSequence(xres, yres), failAt)
        /\ dc' = 0
        /\ last' = [op |-> "set_addr_win", args |-> a, ret |-> 0]
        /\ before' = DisplayState
        /\ ctrl' = CtrlReceive(ctrl, bus')
        /\ window' = IF ctrl.attached THEN Payload(bus') ELSE window
        /\ UNCHANGED <<xres, yres, rotate, vmem16, curves, txbuf, DisplayState,
                       pc, lock, defaultStores>>

\* lines 162-172
blank ==
    \E on \in BOOLEAN :
    \E failAt \in FailPoints(1) :
        /\ bus' = Emit(<<BlankCommand(on)>>, failAt)
        /\ dc' = 0
        /\ last' = [op |-> "blank", args |-> <<on>>, ret |-> 0]
        /\ DisplayState' = StateAfterBlank(on)
        /\ before' = DisplayState
        /\ ctrl' = CtrlReceive(ctrl, bus')
        /\ UNCHANGED <<xres, yres, rotate, vmem16, curves, txbuf,
                       pc, lock, defaultStores, window>>

\* lines 175-185; curves points at par->gamma.curves
set_gamma ==
    \E level \in Levels :
    \E failAt \in FailPoints(Len(GammaSequence(MaskGamma(level)))) :
        /\ curves' = MaskGamma(level)
        /\ bus' = Emit(GammaSequence(curves'), failAt)
        /\ dc' = 0
        /\ last' = [op |-> "set_gamma", args |-> <<level>>, ret |-> 0]
        /\ before' = DisplayState
        /\ ctrl' = CtrlReceive(ctrl, bus')
        /\ UNCHANGED <<xres, yres, rotate, vmem16, txbuf, DisplayState,
                       pc, lock, defaultStores, window>>

\* lines 187-216
write_vmem ==
    LET buf == StoreFrame(txbuf, Packed(vmem16, xres, yres))
    IN  \E a \in VmemArgs(xres, yres) :
        \E r \in WriteResults :
            /\ txbuf' = buf
            /\ dc' = 1
            /\ bus' = <<WriteData(dc', buf, BurstLen(xres, yres), r)>>
            /\ last' = [op |-> "write_vmem", args |-> a, ret |-> r]
            /\ before' = DisplayState
            /\ ctrl' = CtrlBurst(ctrl, bus'[1])
            /\ UNCHANGED <<xres, yres, rotate, vmem16, curves, DisplayState,
                           pc, lock, defaultStores, window>>

Next == init_display \/ set_addr_win \/ blank \/ set_gamma \/ write_vmem

Spec == Init /\ [][Next]_vars

\* the driver with a panel attached to the bus
InitPanel ==
    /\ \E g \in Geometries : xres = g[1] /\ yres = g[2]
    /\ rotate = 0
    /\ vmem16 \in Frames(xres, yres)
    /\ curves = 0
    /\ txbuf = Zeros(BurstLen(xres, yres))
    /\ dc = 0
    /\ bus = <<>>
    /\ last = [op |-> "none", args |-> <<>>, ret |-> 0]
    /\ DisplayState = "Uninitialized"
    /\ before = "Uninitialized"
    /\ pc = <<>>
    /\ lock = 0
    /\ defaultStores = 0
    /\ ctrl = CtrlPowerOn
    /\ window = <<>>

SpecPanel == InitPanel /\ [][Next]_vars

-----------------------------------------------------------------------------
(* The frame packer on enumerated buffers *)

InitPack ==
    /\ \E g \in PackGeometries : xres = g[1] /\ yres = g[2]
    /\ rotate = 0
    /\ vmem16 \in PackBuffers(xres, yres)
    /\ curves = 0
    /\ txbuf = Zeros(BurstLen(xres, yres))
    /\ dc = 0
    /\ bus = <<>>
    /\ last = [op |-> "none", args |-> <<>>, ret |-> 0]
    /\ DisplayState = "Uninitialized"
    /\ before = "Uninitialized"
    /\ pc = <<>>
    /\ lock = 0
    /\ defaultStores = 0
    /\ ctrl = CtrlDetached
    /\ window = <<>>

SpecPack == InitPack /\ [][write_vmem]_vars

-----------------------------------------------------------------------------
(* init_display entered by several callers at once, next to a writer of    *)
(* the contrast that holds par->gamma.lock                                 *)

Callers == 1..NumCallers

Writer == NumCallers + 1

InitRace ==
    /\ \E g \in Geometries : xres = g[1] /\ yres = g[2]
    /\ rotate \in Rotations
    /\ vmem16 = Dark
    /\ curves = 0
    /\ txbuf = Zeros(BurstLen(xres, yres))
    /\ dc = 0
    /\ bus = <<>>
    /\ last = [op |-> "none", args |-> <<>>, ret |-> 0]
    /\ DisplayState = "Uninitialized"
    /\ before = "Uninitialized"
    /\ pc = [t \in Callers \cup {Writer} |-> "idle"]
    /\ lock = 0
    /\ defaultStores = 0
    /\ ctrl = CtrlDetached
    /\ window = <<>>

\* line 34: the caller enters init_display and resets the controller
init_enter(t) ==
    /\ pc[t] = "idle"
    /\ pc' = [pc EXCEPT ![t] = "test"]
    /\ before' = DisplayState
    /\ DisplayState' = "Initializing"
    /\ UNCHANGED <<xres, yres, rotate, vmem16, curves, txbuf, dc, bus, last,
                   lock, defaultStores, ctrl, window>>

\* line 36: the test for an unset contrast, made without the lock
init_test(t) ==
    /\ pc[t] = "test"
    /\ pc' = [pc EXCEPT ![t] = IF curves = 0 THEN "lock" ELSE "sequence"]
    /\ UNCHANGED <<xres, yres, rotate, vmem16, curves, txbuf, dc, bus, last,
                   DisplayState, before, lock, defaultStores, ctrl, window>>

\* line 37: mutex_lock(&par->gamma.lock)
init_lock(t) ==
    /\ pc[t] = "lock"
    /\ lock = 0
    /\ lock' = t
    /\ pc' = [pc EXCEPT ![t] = "store"]
    /\ UNCHANGED <<xres, yres, rotate, vmem16, curves, txbuf, dc, bus, last,
                   DisplayState, before, defaultStores, ctrl, window>>

\* lines 38-41: the store of the default
init_store(t) ==
    /\ pc[t] = "store"
    /\ curves' = DefaultContrast(yres)
    /\ defaultStores' = defaultStores + 1
    /\ pc' = [pc EXCEPT ![t] = "unlock"]
    /\ UNCHANGED <<xres, yres, rotate, vmem16, txbuf, dc, bus, last,
                   DisplayState, before, lock, ctrl, window>>

\* line 42: mutex_unlock(&par->gamma.lock)
init_unlock(t) ==
    /\ pc[t] = "unlock"
    /\ lock' = 0
    /\ pc' = [pc EXCEPT ![t] = "sequence"]
    /\ UNCHANGED <<xres, yres, rotate, vmem16, curves, txbuf, dc, bus, last,
                   DisplayState, before, defaultStores, ctrl, window>>

\* lines 45-119: the command sequence and the return
init_sequence(t) ==
    /\ pc[t] = "sequence"
    /\ \E failAt \in FailPoints(Len(InitSequence(yres, rotate))) :
           bus' = Emit(InitSequence(yres, rotate), failAt)
    /\ dc' = 0
    /\ last' = [op |-> "init_display", args |-> <<>>, ret |-> 0]
    /\ DisplayState' = StateAfterInit(0)
    /\ pc' = [pc EXCEPT ![t] = "done"]
    /\ UNCHANGED <<xres, yres, rotate, vmem16, curves, txbuf, before, lock,
                   defaultStores, ctrl, window>>

\* another holder of par->gamma.lock takes it to write the contrast
writer_lock ==
    /\ pc[Writer] = "idle"
    /\ lock = 0
    /\ lock' = Writer
    /\ pc' = [pc EXCEPT ![Writer] = "store"]
    /\ UNCHANGED <<xres, yres, rotate, vmem16, curves, txbuf, dc, bus, last,
                   DisplayState, before, defaultStores, ctrl, window>>

writer_store ==
    /\ pc[Writer] = "store"
    /\ \E level \in Levels : curves' = MaskGamma(level)
    /\ pc' = [pc EXCEPT ![Writer] = "unlock"]
    /\ UNCHANGED <<xres, yres, rotate, vmem16, txbuf, dc, bus, last,
                   DisplayState, before, lock, defaultStores, ctrl, window>>

writer_unlock ==
    /\ pc[Writer] = "unlock"
    /\ lock' = 0
    /\ pc' = [pc EXCEPT ![Writer] = "done"]
    /\ UNCHANGED <<xres, yres, rotate, vmem16, curves, txbuf, dc, bus, last,
                   DisplayState, before, defaultStores, ctrl, window>>

NextRace ==
    \/ \E t \in Callers :
          \/ init_enter(t)
          \/ init_test(t)
          \/ init_lock(t)
          \/ init_store(t)
          \/ init_unlock(t)
          \/ init_sequence(t)
    \/ writer_lock
    \/ writer_store
    \/ writer_unlock

SpecRace == InitRace /\ [][NextRace]_vars

-----------------------------------------------------------------------------
(* Properties *)

\* the payload bytes of the transactions of the most recent callback
BusBytes == [k \in 1..Len(bus) |-> bus[k].bytes]

\* every transaction of the most recent callback is a command-phase
\* transaction of one byte
OnlyCommands == \A k \in 1..Len(bus) : bus[k].dc = 0 /\ Len(bus[k].bytes) = 1

\* bit i of byte b
Bit(b, i) == (b \div (2 ^ i)) % 2

\* C1: init_display issues Display OFF, 0xD5 0x80, 0xA8 height-1, 0xD3 0x00,
\* 0x40, 0x8D 0x14, segment remap, COM scan direction, 0xDA and the COM pins
\* byte, 0x20 0x01, 0xD9 0xF1, 0xDB 0x40, 0xA4, 0xA6, Display ON, in this
\* order and nothing else; the COM pins byte is 0x12 exactly when the height
\* is 64 or 48 (so 0x12 on 128x64 and 0x02 on 128x32).
C1_InitOrdering ==
    last.op = "init_display" =>
        /\ OnlyCommands
        /\ Len(bus) = 23
        /\ bus[11].bytes[1] \in {160, 161}
        /\ bus[12].bytes[1] \in {192, 200}
        /\ bus[14].bytes[1] \in {18, 2}
        /\ bus[14].bytes[1] = 18 <=> yres \in {64, 48}
        /\ BusBytes = << <<174>>, <<213>>, <<128>>, <<168>>, <<yres - 1>>,
                         <<211>>, <<0>>, <<64>>, <<141>>, <<20>>,
                         bus[11].bytes, bus[12].bytes, <<218>>, bus[14].bytes,
                         <<32>>, <<1>>, <<217>>, <<241>>, <<219>>, <<64>>,
                         <<164>>, <<166>>, <<175>> >>

C1_Witness ==
    /\ last.op = "init_display"
    /\ xres = 128 /\ yres = 64
    /\ bus[14].bytes = <<18>>

\* C2: on a panel whose height is a multiple of 8 the frame built by
\* write_vmem has width*height/8 bytes, and bit i of byte x*(height/8)+y is 1
\* exactly when the sample at index (y*8+i)*width+x is nonzero; on 128x32
\* with only pixel (0,0) lit it is 512 bytes, 0x01 followed by zeros.
C2_PackedLayout ==
    (last.op = "write_vmem" /\ yres % 8 = 0) =>
        /\ Len(txbuf) = (xres * yres) \div 8
        /\ \A k \in 1..Len(txbuf) : txbuf[k] \in 0..255
        /\ \A x \in 0..(xres - 1) : \A y \in 0..((yres \div 8) - 1) :
             \A i \in 0..7 :
                Bit(txbuf[x * (yres \div 8) + y + 1], i) = 1
                    <=> Sample(vmem16, (y * 8 + i) * xres + x) # 0
        /\ (xres = 128 /\ yres = 32 /\ vmem16 = OnlyOrigin) =>
              /\ Len(txbuf) = 512
              /\ txbuf[1] = 1
              /\ \A k \in 2..512 : txbuf[k] = 0

C2_Witness ==
    /\ last.op = "write_vmem"
    /\ xres = 128 /\ yres = 32
    /\ vmem16 = OnlyOrigin
    /\ txbuf[1] = 1

\* C3: set_addr_win emits 0x21 32 95, 0x22 0 5 exactly on the 64x48 panel
\* and 0x21 0 width-1, 0x22 0 height/8-1 on every other supported panel,
\* whatever the frame and the window arguments are.
C3_WindowVariant ==
    (last.op = "set_addr_win" /\ Supported(xres, yres)) =>
        /\ OnlyCommands
        /\ BusBytes =
              IF xres = 64 /\ yres = 48
              THEN << <<33>>, <<32>>, <<95>>, <<34>>, <<0>>, <<5>> >>
              ELSE << <<33>>, <<0>>, <<xres - 1>>,
                      <<34>>, <<0>>, <<(yres \div 8) - 1>> >>

C3_Witness ==
    /\ last.op = "set_addr_win"
    /\ xres = 64 /\ yres = 48
    /\ last.args = <<1, 2, 3, 4>>
    /\ vmem16 # Dark
    /\ bus[2].bytes = <<32>>

\* C4: set_addr_win on an unsupported panel sends nothing on the bus.
C4_RejectsUnsupported ==
    (last.op = "set_addr_win" /\ ~Supported(xres, yres)) => bus = <<>>

\* C5: an init_display that finds the contrast unset leaves it at 0xCF on a
\* panel of 64 rows and at 0x8F on any other; an init_display that finds it
\* set leaves it as it is, on every call.
C5_LazyContrast ==
    [][last'.op = "init_display" =>
          curves' = IF curves = 0
                    THEN (IF yres = 64 THEN 207 ELSE 143)
                    ELSE curves]_vars

C5_Witness ==
    /\ last.op = "init_display"
    /\ yres = 32
    /\ curves = 143

\* C6: under every interleaving of concurrent init_display callers and a
\* lock-holding writer of the contrast, the default contrast is stored at
\* most once.
C6_DefaultOnce == defaultStores <= 1

\* C7: a failed bus write ends init_display: it is the last transaction
\* issued, init_display returns an error and the panel stays Initializing;
\* init_display returns 0 only when every transaction succeeded.
C7_AbortOnFailure ==
    last.op = "init_display" =>
        \A k \in 1..Len(bus) :
            bus[k].ret # 0 =>
                /\ k = Len(bus)
                /\ last.ret # 0
                /\ DisplayState = "Initializing"

\* C8: write_vmem issues one transaction: a data-phase burst of the first
\* width*height/8 bytes of the packed buffer, whatever offset and len are;
\* it returns the result of that write.
C8_SingleBurst ==
    last.op = "write_vmem" =>
        /\ Len(bus) = 1
        /\ bus[1].dc = 1
        /\ dc = 1
        /\ Len(bus[1].bytes) = (xres * yres) \div 8
        /\ bus[1].bytes = SubSeq(txbuf, 1, (xres * yres) \div 8)
        /\ last.ret = bus[1].ret

C8_Witness ==
    /\ last.op = "write_vmem"
    /\ xres = 128 /\ yres = 32
    /\ last.args = <<256, 256>>
    /\ last.ret = EIO
    /\ Len(bus[1].bytes) = 512

\* C9: blank(on) issues one command, 0xAE when on and 0xAF otherwise, and
\* leaves the panel Blanked or On accordingly; blank(true) on a panel that
\* is On followed by blank(false) issues 0xAE, then 0xAF, and leaves it On.
C9_BlankToggle ==
    /\ [](last.op = "blank" =>
            /\ OnlyCommands
            /\ BusBytes = IF last.args[1] THEN << <<174>> >> ELSE << <<175>> >>
            /\ DisplayState = IF last.args[1] THEN "Blanked" ELSE "On")
    /\ [][(/\ last.op = "blank" /\ last.args[1] /\ before = "On"
           /\ last'.op = "blank" /\ ~last'.args[1])
          => (/\ BusBytes = << <<174>> >>
              /\ BusBytes' = << <<175>> >>
              /\ DisplayState' = "On")]_vars

C9_Witness ==
    /\ last.op = "blank"
    /\ last.args = <<FALSE>>
    /\ before = "Blanked"
    /\ DisplayState = "On"
    /\ BusBytes = << <<175>> >>

\* C10: set_gamma issues two command transactions and nothing else: 0x81,
\* then the level reduced to its low 8 bits.
C10_ContrastBytes ==
    last.op = "set_gamma" =>
        /\ OnlyCommands
        /\ BusBytes = << <<129>>, <<last.args[1] % 256>> >>

C10_Witness ==
    /\ last.op = "set_gamma"
    /\ last.args = <<463>>
    /\ BusBytes = << <<129>>, <<207>> >>

\* the samples a frame expands to: the sample of pixel (x, row) is bit
\* row % 8 of byte x * (h / 8) + row / 8
Unpack(frame, w, h) ==
    [idx \in 0..(w * h - 1) |->
        Bit(frame[(idx % w) * (h \div 8) + ((idx \div w) \div 8) + 1],
            (idx \div w) % 8)]

\* C11: on a supported panel, a buffer of samples 0 and 1 is what its packed
\* frame expands to, pixel by pixel.
C11_RoundTrip ==
    (/\ last.op = "write_vmem"
     /\ Supported(xres, yres)
     /\ \A idx \in DOMAIN vmem16 : vmem16[idx] \in {0, 1})
    => \A idx \in 0..(xres * yres - 1) :
          Unpack(SubSeq(txbuf, 1, (xres * yres) \div 8), xres, yres)[idx]
              = Sample(vmem16, idx)

C11_Witness ==
    /\ last.op = "write_vmem"
    /\ xres = 2 /\ yres = 16
    /\ vmem16 = [idx \in {3, 30} |-> 1]
    /\ Unpack(txbuf, xres, yres)[30] = 1

\* C12: every set_addr_win issues six one-byte transactions, and they carry
\* the bytes of the window programming before it on the same panel, whatever
\* its arguments and whichever of write_vmem, set_gamma, blank and
\* init_display ran in between.
C12_WindowIdempotent ==
    /\ [][last'.op = "set_addr_win" =>
            /\ Len(bus') = 6
            /\ \A k \in 1..Len(bus') : Len(bus'[k].bytes) = 1
            /\ window # << >> => Payload(bus') = window]_vars
    /\ [](last.op = "set_addr_win" => window = Payload(bus))

C12_Witness ==
    /\ last.op = "set_addr_win"
    /\ last.args # << 0, 0, xres - 1, yres - 1 >>
    /\ window = Payload(bus)
    /\ curves = \h7F
    /\ DisplayState = "Blanked"
    /\ vmem16 # Dark
    /\ txbuf = Packed(vmem16, xres, yres)

\* the controller took in every transaction since its reset, among them an
\* addressing mode, a column range and a page range, and its last burst, the
\* frame of the most recent callback, arrived whole and began at the origin
FrameLanded ==
    /\ last.op = "write_vmem"
    /\ bus[1].ret = 0
    /\ ctrl.attached /\ ctrl.known
    /\ {\h20, \h21, \h22} \subseteq ctrl.seen
    /\ ctrl.aligned

\* C16: on a supported panel, once init_display, set_addr_win and write_vmem
\* went through, the controller is in vertical addressing mode and byte k of
\* the burst is stored x columns right of the window's first column in page
\* y, where bit i of the byte is 1 exactly when sample (x, 8y+i) is nonzero;
\* the bytes fill every (x, y) of the panel and none overwrites another.
C16_LayoutCoupling ==
    (FrameLanded /\ Supported(xres, yres)) =>
        LET bytes == bus[1].bytes
            lands == [k \in 1..Len(bytes) |-> CtrlLand(ctrl, k - 1)]
        IN  /\ ctrl.mode = 1
            /\ Len(bytes) = xres * (yres \div 8)
            /\ Cardinality({ lands[k] : k \in 1..Len(bytes) }) = Len(bytes)
            /\ \A k \in 1..Len(bytes) :
                  LET x == lands[k].col - ctrl.cs
                      y == lands[k].page
                  IN  /\ x \in 0..(xres - 1)
                      /\ y \in 0..((yres \div 8) - 1)
                      /\ \A i \in 0..7 :
                            Bit(bytes[k], i) =
                              IF Sample(vmem16, (y * 8 + i) * xres + x) # 0
                              THEN 1 ELSE 0

C16_Witness ==
    /\ FrameLanded
    /\ xres = 64 /\ yres = 48
    /\ ctrl.cs = \h20
    /\ vmem16 = Diagonal(xres, yres)
    /\ CtrlLand(ctrl, 6 * 5 + 0) = [col |-> \h20 + 5, page |-> 0]
    /\ bus[1].bytes[6 * 5 + 1] = 2 ^ 5

\* the number of bytes the controller's window holds
WindowSize(c) == (c.ce - c.cs + 1) * (c.pe - c.ps + 1)

\* the controller took in every transaction since its reset, among them a
\* column range and a page range
WindowProgrammed ==
    /\ ctrl.attached /\ ctrl.known
    /\ {\h21, \h22} \subseteq ctrl.seen

\* C19: on a panel whose height is a multiple of 8, the window the controller
\* holds after set_addr_win has xres*yres/8 bytes (384 on 64x48), which is
\* the length of every burst of write_vmem; the pointer stands at the window
\* origin after set_addr_win and after each burst that follows, so that
\* every such burst begins at the origin.
C19_WindowHoldsFrame ==
    (WindowProgrammed /\ yres % 8 = 0) =>
        /\ WindowSize(ctrl) = xres * (yres \div 8)
        /\ (xres = 64 /\ yres = 48) => WindowSize(ctrl) = 384
        /\ ctrl.colAtStart /\ ctrl.pageAtStart
        /\ last.op = "write_vmem" =>
              /\ Len(bus) = 1
              /\ Len(bus[1].bytes) = WindowSize(ctrl)
              /\ ctrl.aligned

C19_Witness ==
    /\ WindowProgrammed
    /\ last.op = "write_vmem"
    /\ xres = 64 /\ yres = 48
    /\ << ctrl.cs, ctrl.ce, ctrl.ps, ctrl.pe >> = << 32, 95, 0, 5 >>
    /\ Len(bus[1].bytes) = 384
    /\ ctrl.aligned /\ ctrl.colAtStart /\ ctrl.pageAtStart

\* C13 as stated: on a 128x32 panel at 0 degrees init_display issues 16
\* command transactions, the last of them Display ON.
C13_SixteenTransactions ==
    (last.op = "init_display" /\ xres = 128 /\ yres = 32 /\ rotate = 0) =>
        /\ Len(bus) = 16
        /\ bus[Len(bus)].bytes = <<175>>

\* C13 amended: on a 128x32 panel at 0 degrees init_display issues 23
\* command transactions (15 commands and their 8 argument bytes), the last
\* of them Display ON.
C13_TwentyThreeTransactions ==
    (last.op = "init_display" /\ xres = 128 /\ yres = 32 /\ rotate = 0) =>
        /\ Len(bus) = 23
        /\ Cardinality({ k \in 1..Len(bus) :
               bus[k].bytes[1] \in {174, 213, 168, 211, 64, 141, 160, 192,
                                    218, 32, 217, 219, 164, 166, 175}
               /\ (k = 1 \/ bus[k - 1].bytes[1] \notin
                                {213, 168, 211, 141, 218, 32, 217, 219}) }) = 15
        /\ \A k \in 1..Len(bus) : bus[k].dc = 0
        /\ bus[Len(bus)].bytes = <<175>>

C13_Witness ==
    /\ last.op = "init_display"
    /\ xres = 128 /\ yres = 32 /\ rotate = 0
    /\ Len(bus) = 23
    /\ bus[23].bytes = <<175>>

\* C14: every transaction of init_display, set_addr_win, set_gamma and blank
\* is a command-phase transaction of exactly one byte: the callback issues
\* as many transactions as it sends bytes.
C14_OneBytePerTransaction ==
    last.op \in {"init_display", "set_addr_win", "set_gamma", "blank"} =>
        /\ Len(bus) = (CASE last.op = "init_display" -> 23
                         [] last.op = "set_addr_win" -> 6
                         [] last.op = "set_gamma" -> 2
                         [] last.op = "blank" -> 1)
        /\ \A k \in 1..Len(bus) :
              /\ bus[k].dc = 0
              /\ Len(bus[k].bytes) = 1
              /\ bus[k].bytes[1] \in 0..255

C14_Witness ==
    /\ last.op = "set_addr_win"
    /\ xres = 64 /\ yres = 48 /\ rotate = 180
    /\ Len(bus) = 6
    /\ Len(bus[3].bytes) = 1

\* C15: init_display sends the mirrored pair 0xA1, 0xC8 when rotate >= 180
\* and the normal pair 0xA0, 0xC0 otherwise, segment remap right before COM
\* scan direction; never a mixed pair.
C15_RemapPair ==
    last.op = "init_display" =>
        /\ Len(bus) >= 12
        /\ <<bus[11].bytes, bus[12].bytes>> =
              IF rotate >= 180 THEN << <<161>>, <<200>> >>
                               ELSE << <<160>>, <<192>> >>
        /\ \A k \in 1..Len(bus) :
              /\ bus[k].bytes[1] \in {160, 161} => k = 11
              /\ bus[k].bytes[1] \in {192, 200} => k = 12

C15_Witness ==
    /\ last.op = "init_display"
    /\ rotate = 180
    /\ bus[11].bytes = <<161>>
    /\ bus[12].bytes = <<200>>

\* C17: a write_vmem, whatever its result, leaves the pixel buffer, the
\* geometry, the stored contrast and the panel state as they were, issues
\* nothing but one data burst, and leaves in txbuf the frame of the current
\* samples, whatever txbuf held before.
C17_ReadOnly ==
    /\ [][last'.op = "write_vmem" =>
            /\ vmem16' = vmem16
            /\ <<xres', yres', rotate'>> = <<xres, yres, rotate>>
            /\ curves' = curves
            /\ DisplayState' = DisplayState
            /\ Len(bus') = 1
            /\ \A k \in 1..Len(bus') : bus'[k].dc = 1]_vars
    /\ []((last.op = "write_vmem" /\ yres % 8 = 0) =>
             \A idx \in 0..(xres * yres - 1) :
                 Unpack(txbuf, xres, yres)[idx]
                     = IF Sample(vmem16, idx) # 0 THEN 1 ELSE 0)

C17_Witness ==
    /\ last.op = "write_vmem"
    /\ last.ret = 0 - 110
    /\ xres = 64 /\ yres = 48
    /\ vmem16 = Diagonal(64, 48)
    /\ curves = 127
    /\ DisplayState = "Blanked"
    /\ txbuf[1] = 1

\* C18: DisplayState moves only from Uninitialized through Initializing to
\* On, by init_display, and between On and Blanked, by blank; and blank never
\* sends Display ON to a panel that is Uninitialized.
C18_Lifecycle ==
    /\ [][DisplayState' # DisplayState =>
            \/ /\ last'.op = "init_display"
               /\ <<DisplayState, DisplayState'>> \in
                     { <<"Uninitialized", "Initializing">>,
                       <<"Initializing", "On">>,
                       <<"Uninitialized", "On">> }
            \/ /\ last'.op = "blank"
               /\ <<DisplayState, DisplayState'>> \in
                     { <<"On", "Blanked">>, <<"Blanked", "On">> }]_vars
    /\ []((last.op = "blank" /\ BusBytes = << <<175>> >>)
              => before # "Uninitialized")

\* C20: after set_gamma(level) the stored contrast is level mod 256, a byte,
\* and the argument just sent; when level is a multiple of 256 the stored
\* contrast is 0 and an init_display that follows stores the default.
C20_StoredContrast ==
    /\ [](last.op = "set_gamma" =>
            /\ curves = last.args[1] % 256
            /\ curves \in 0..255
            /\ Len(bus) = 2
            /\ bus[2].bytes = <<curves>>
            /\ last.args[1] % 256 = 0 => curves = 0)
    /\ [][(/\ last.op = "set_gamma"
           /\ last.args[1] % 256 = 0
           /\ last'.op = "init_display")
          => curves' = IF yres = 64 THEN 207 ELSE 143]_vars

C20_Witness ==
    /\ last.op = "set_gamma"
    /\ last.args = <<256>>
    /\ curves = 0
    /\ before = "On"

====
